---- MODULE Spec2Model ----
(***************************************************************************)
(* DriveSentry: the driving-session detection engine of drive-pilot.       *)
(*                                                                         *)
(* The module models the four cooperating singletons                       *)
(*   DrivingDetector   (core/drive-sentry/listeners/index.ts)              *)
(*   SessionManager    (core/drive-sentry/session/SessionManager.ts)       *)
(*   BluetoothListener (core/drive-sentry/listeners/BluetoothListener.ts)  *)
(*   DriveSentry       (core/drive-sentry/detectors/index.ts)              *)
(* with JavaScript's run-to-completion scheduling: a call runs up to its   *)
(* first await, the rest of an async function is a continuation that runs  *)
(* later, either from the microtask queue (mq) or when I/O completes.      *)
(***************************************************************************)
EXTENDS FiniteSets, Integers, Sequences, TLC

VARIABLES
    status,          \* DriveSentry.status
    isInitialized,   \* DriveSentry.isInitialized
    currentSession,  \* SessionManager.currentSession: a session id, or Null
    waypoints,       \* SessionManager.waypoints
    sessions,        \* the DriveSession objects not yet completed, by id
    detector,        \* DrivingDetector: state, drivingStartTime, stationaryStartTime
    bluetooth,       \* BluetoothListener: bleManager, state.isScanning, state.connectedDevices
    gps,             \* GPSListener.state: isTracking, currentMode
    mq,              \* continuations of async handlers waiting in the microtask queue
    batch,           \* how many samples processLocationUpdates has still to loop over
    stopCall,        \* the stop() invocation: position, session it ended, events it emitted
    startCall,       \* the start() invocation: position
    emitted,         \* the events the last step handed to the subscribers
    warned,          \* what the last step wrote with console.warn
    eventHandlers,   \* DriveSentry.eventHandlers: the subscribed handlers, in insertion order
    invoked,         \* the handler invocations of the last step, in order
    result,          \* outcome of the last direct SessionManager call
    activeCalls,     \* addWaypoint calls made on the current session while it was active
    fed,             \* what the detector was fed since its last reset, and what it returned
    linked,          \* ids of the devices connected and not since disconnected
    clock,           \* the system clock, Date.now(), in milliseconds
    manuallyTaggedDevices,  \* CarBluetoothMatcher.manuallyTaggedDevices: the Map's entries
    answer,          \* the last call made on the CarBluetoothMatcher, and what it returned
    tagged,          \* ids tagged as car devices and not since untagged
    held             \* the session value a caller of SessionManager holds on to

vars == <<status, isInitialized, currentSession, waypoints, sessions, detector,
          bluetooth, gps, mq, batch, stopCall, startCall, emitted, result, activeCalls,
          fed, linked, warned, eventHandlers, invoked, clock,
          manuallyTaggedDevices, answer, tagged, held>>

(***************************************************************************)
(* Bounds of the model.                                                    *)
(***************************************************************************)
MaxLap == 1           \* sample timestamps reach minDuration + MaxLap * maxStationaryTime
MaxWaypoints == 1     \* waypoints held for one session, under the orchestrator
MaxCalls == 2         \* waypoints held for one session, SessionManager called directly
MaxBatch == 2         \* samples in one processLocationUpdates call
MaxPending == 0       \* continuations already queued when a new call is made
MaxTicks == 25        \* the detector's feed runs for MaxTicks * 10 seconds
MaxClock == 2         \* the system clock runs for MaxClock seconds
MaxTags == 2          \* entries the matcher's Map holds before a further tag
MaxBurst == 2         \* disconnect events that arrive before a continuation runs
MaxOverlap == 3       \* continuations queued when an overlapping call is made

(***************************************************************************)
(* Program constants.                                                      *)
(***************************************************************************)
Null == -1                 \* null, for number-or-null fields
minSpeed == 5
minDuration == 60
maxStationaryTime == 120

\* sample timestamps, in milliseconds
Timestamps ==
    {0, minDuration * 1000}
        \cup {(minDuration + k * maxStationaryTime) * 1000 : k \in 1..MaxLap}
Speeds == {0, minSpeed + 1}
\* positions on one meridian, in metres of arc from a point of reference
Latitudes == {0}
Locations == [timestamp : Timestamps, speed : Speeds, latitude : Latitudes]

Devices == { [id |-> "d1", name |-> "My Car"], [id |-> "d2", name |-> "Headset"] }

NoTrigger == [type |-> "none"]
ManualTrigger == [type |-> "manual"]
BluetoothTrigger(deviceId, deviceName) ==
    [type |-> "bluetooth", deviceId |-> deviceId, deviceName |-> deviceName]
GpsTrigger(location) == [type |-> "gps", location |-> location]

\* JavaScript's !x for x : number | null
Falsy(x) == x = Null \/ x = 0

(***************************************************************************)
(* The world: every field a handler can read or write, threaded through    *)
(* the nested calls of a handler.  thrown: an exception is propagating;    *)
(* ret: the value the last call returned.                                  *)
(***************************************************************************)
World ==
    [status |-> status, currentSession |-> currentSession, waypoints |-> waypoints,
     sessions |-> sessions, detector |-> detector, bluetooth |-> bluetooth,
     gps |-> gps, mq |-> mq, emitted |-> <<>>, warned |-> "",
     eventHandlers |-> eventHandlers, invoked |-> <<>>, now |-> clock,
     thrown |-> FALSE, ret |-> Null]

\* the heap of session objects: a function from the ids of the live objects
Put(heap, id, object) == [i \in DOMAIN heap \cup {id} |-> IF i = id THEN object ELSE heap[i]]

\* A completed object that neither the manager nor a waiting continuation refers to is
\* garbage; the heap keeps every other object.
Referenced(w) ==
    {w.currentSession} \cup
    {w.mq[i].arg : i \in {j \in DOMAIN w.mq : w.mq[j].kind = "sessionStarted"}}
\* generateSessionId: an id that no session object in use carries.  The code draws it
\* from the clock and a random number; the model takes the least id free among the
\* objects of the heap, the completed sessions waiting in mq and the last result.
IdsInUse(w) ==
    DOMAIN w.sessions
        \cup {w.mq[i].arg.id : i \in {j \in DOMAIN w.mq : w.mq[j].kind = "sessionEnded"}}
        \cup {result.value.id}
generateSessionId(w) == CHOOSE id \in 1..(Cardinality(IdsInUse(w)) + 1) :
                           /\ id \notin IdsInUse(w)
                           /\ \A j \in 1..(id - 1) : j \in IdsInUse(w)
Collect(w) ==
    [i \in {j \in DOMAIN w.sessions :
                j \in Referenced(w) \/ w.sessions[j].status # "completed"} |-> w.sessions[i]]

Commit(w) ==
    /\ status' = w.status
    /\ currentSession' = w.currentSession
    /\ waypoints' = w.waypoints
    /\ sessions' = Collect(w)
    /\ detector' = w.detector
    /\ bluetooth' = w.bluetooth
    /\ gps' = w.gps
    /\ mq' = w.mq
    /\ emitted' = w.emitted
    /\ warned' = w.warned
    /\ eventHandlers' = w.eventHandlers
    /\ invoked' = w.invoked

(***************************************************************************)
(* SessionManager                                                          *)
(***************************************************************************)
\* a quotient of two numbers, kept as the pair it is computed from
Ratio(num, den) == [num |-> num, den |-> den]
Zero == Ratio(0, 1)

NoSessionObject ==
    [id |-> Null, status |-> "none", startTrigger |-> NoTrigger, endTrigger |-> NoTrigger,
     startTime |-> Null, endTime |-> Null, totalDistance |-> 0, totalDuration |-> 0,
     averageSpeed |-> Zero, maxSpeed |-> 0, waypointCount |-> 0]

\* the object this.currentSession refers to
Current(w) == IF w.currentSession = Null THEN NoSessionObject ELSE w.sessions[w.currentSession]

getCurrentSession(w) == Current(w)

isSessionActive(w) == w.currentSession # Null /\ Current(w).status # "completed"

\* a startSession without the guard: it takes the place of the session that is there
startSession_Replacing(w, trigger) ==
    LET id == generateSessionId(w)
        session == [id |-> id, status |-> "active", startTrigger |-> trigger,
                    endTrigger |-> NoTrigger, startTime |-> w.now, endTime |-> Null,
                    totalDistance |-> 0, totalDuration |-> 0, averageSpeed |-> Zero,
                    maxSpeed |-> 0, waypointCount |-> 0]
    IN [w EXCEPT !.sessions = Put(@, id, session),
                 !.currentSession = id, !.waypoints = <<>>, !.ret = id]

startSession(w, trigger) ==
    IF w.currentSession # Null /\ Current(w).status # "completed"
    THEN [w EXCEPT !.thrown = TRUE]
    ELSE LET id == generateSessionId(w)
             session == [id |-> id, status |-> "active", startTrigger |-> trigger,
                         endTrigger |-> NoTrigger, startTime |-> w.now, endTime |-> Null,
                         totalDistance |-> 0, totalDuration |-> 0, averageSpeed |-> Zero,
                         maxSpeed |-> 0, waypointCount |-> 0]
         IN [w EXCEPT !.sessions = Put(@, id, session),
                      !.currentSession = id, !.waypoints = <<>>, !.ret = id]

\* a pauseSession that asks only for a session, whatever its status
pauseSession_AnyStatus(w) ==
    IF w.currentSession = Null
    THEN [w EXCEPT !.thrown = TRUE]
    ELSE [w EXCEPT !.sessions[w.currentSession].status = "paused"]

pauseSession(w) ==
    IF w.currentSession = Null \/ Current(w).status # "active"
    THEN [w EXCEPT !.thrown = TRUE]
    ELSE [w EXCEPT !.sessions[w.currentSession].status = "paused"]

resumeSession(w) ==
    IF w.currentSession = Null \/ Current(w).status # "paused"
    THEN [w EXCEPT !.thrown = TRUE]
    ELSE [w EXCEPT !.sessions[w.currentSession].status = "active"]

\* haversineDistance for two points of one meridian: with deltaLon = 0 the formula
\* gives R * |deltaLat|, the length of the arc between them
haversineDistance(coord1, coord2) ==
    IF coord1.latitude >= coord2.latitude
    THEN coord1.latitude - coord2.latitude
    ELSE coord2.latitude - coord1.latitude

\* the loop of calculateStats over the consecutive waypoints
RECURSIVE SumOfLegs(_)
SumOfLegs(points) ==
    IF Len(points) < 2 THEN 0
    ELSE haversineDistance(points[1], points[2]) + SumOfLegs(Tail(points))

\* a calculateStats that does not ask for two waypoints
calculateStats_NoGuard(session, points) ==
    LET duration == (session.endTime - session.startTime) \div 1000
        totalDistance == SumOfLegs(points)
    IN [session EXCEPT !.totalDuration = duration,
                       !.totalDistance = totalDistance,
                       !.averageSpeed = IF duration > 0 THEN Ratio(totalDistance, duration)
                                        ELSE @]

\* calculateStats, on the session object and the waypoints; the clock runs in whole
\* seconds, so that the duration in seconds is a whole number
calculateStats(session, points) ==
    IF Len(points) < 2 THEN session
    ELSE LET duration == (session.endTime - session.startTime) \div 1000
             totalDistance == SumOfLegs(points)
         IN [session EXCEPT !.totalDuration = duration,
                            !.totalDistance = totalDistance,
                            !.averageSpeed = IF duration > 0
                                             THEN Ratio(totalDistance, duration)
                                             ELSE @]

\* an endSession that leaves the waypoints where they are
endSession_KeepsWaypoints(w, endTrigger) ==
    IF w.currentSession = Null
    THEN [w EXCEPT !.thrown = TRUE]
    ELSE LET ended == [Current(w) EXCEPT !.endTime = w.now,
                                         !.endTrigger = endTrigger,
                                         !.status = "completed",
                                         !.waypointCount = Len(w.waypoints)]
             completed == calculateStats(ended, w.waypoints)
         IN [w EXCEPT !.sessions[w.currentSession] = completed,
                      !.currentSession = Null, !.ret = completed]

\* The object is completed in place and a copy of it returned.
endSession(w, endTrigger) ==
    IF w.currentSession = Null
    THEN [w EXCEPT !.thrown = TRUE]
    ELSE LET ended == [Current(w) EXCEPT !.endTime = w.now,
                                         !.endTrigger = endTrigger,
                                         !.status = "completed",
                                         !.waypointCount = Len(w.waypoints)]
             completed == calculateStats(ended, w.waypoints)
         IN [w EXCEPT !.sessions[w.currentSession] = completed,
                      !.currentSession = Null, !.waypoints = <<>>, !.ret = completed]

\* an addWaypoint that also accepts a sample while the session is paused
addWaypoint_AnyStatus(w, location) ==
    IF w.currentSession = Null
    THEN w
    ELSE LET waypoint == [timestamp |-> location.timestamp, speed |-> location.speed,
                          latitude |-> location.latitude,
                          id |-> Len(w.waypoints) + 1, sessionId |-> Current(w).id]
         IN [w EXCEPT !.waypoints = Append(@, waypoint),
                      !.sessions[w.currentSession].maxSpeed =
                          IF location.speed # Null /\ location.speed # 0 /\ location.speed > @
                          THEN location.speed ELSE @]

\* an addWaypoint that keeps the waypoints in the order of their timestamps
addWaypoint_Sorted(w, location) ==
    IF w.currentSession = Null \/ Current(w).status # "active"
    THEN w
    ELSE LET waypoint == [timestamp |-> location.timestamp, speed |-> location.speed,
                          latitude |-> location.latitude,
                          id |-> Len(w.waypoints) + 1, sessionId |-> Current(w).id]
             earlier == SelectSeq(w.waypoints, LAMBDA p : p.timestamp <= location.timestamp)
             later == SelectSeq(w.waypoints, LAMBDA p : p.timestamp > location.timestamp)
         IN [w EXCEPT !.waypoints = earlier \o <<waypoint>> \o later,
                      !.sessions[w.currentSession].maxSpeed =
                          IF location.speed # Null /\ location.speed # 0 /\ location.speed > @
                          THEN location.speed ELSE @]

addWaypoint(w, location) ==
    IF w.currentSession = Null \/ Current(w).status # "active"
    THEN w
    ELSE LET waypoint == [timestamp |-> location.timestamp, speed |-> location.speed,
                          latitude |-> location.latitude,
                          id |-> Len(w.waypoints) + 1, sessionId |-> Current(w).id]
         IN [w EXCEPT !.waypoints = Append(@, waypoint),
                      !.sessions[w.currentSession].maxSpeed =
                          IF location.speed # Null /\ location.speed # 0 /\ location.speed > @
                          THEN location.speed ELSE @]

(***************************************************************************)
(* DrivingDetector                                                         *)
(***************************************************************************)
DetectorInit == [state |-> "idle", drivingStartTime |-> Null, stationaryStartTime |-> Null]

\* The stream a detector has seen since it was constructed or reset: the timestamps of
\* its first sample and of its first sample with speed >= minSpeed, whether every
\* sample had such a speed, the last sample, the state and the confidence
\* processLocation returned for it, the timestamp of the last sample with a lower
\* speed or none, and the timestamp of the first sample of the run of such samples
\* that the last sample belongs to.  twin is a detector constructed when the stream
\* began and fed the same samples; afterReset tells that the stream began with a
\* reset of a detector that had been fed before.  clock is the timestamp of the last sample of the feed, reset or not.
NoSample == [timestamp |-> Null, speed |-> Null]
NothingFed ==
    [first |-> Null, firstMoving |-> Null, allMoving |-> TRUE, sample |-> NoSample,
     returned |-> "none", confidence |-> Zero, lastSlow |-> Null, runStart |-> Null,
     twin |-> DetectorInit, afterReset |-> FALSE, clock |-> Null]

\* a reset that leaves the driving-start marker
reset_KeepsMarker(w) ==
    [w EXCEPT !.detector.state = "idle", !.detector.stationaryStartTime = Null]

reset(w) == [w EXCEPT !.detector = DetectorInit]

\* a detector that does not wait for minDuration
processLocation_Eager(d, location) ==
    LET currentSpeed == IF location.speed = Null THEN 0 ELSE location.speed
        isMoving == currentSpeed >= minSpeed
    IN IF isMoving
       THEN LET d1 == [d EXCEPT !.stationaryStartTime = Null]
                d2 == IF Falsy(d1.drivingStartTime)
                      THEN [d1 EXCEPT !.drivingStartTime = location.timestamp,
                                      !.state = "detecting"]
                      ELSE d1
            IN IF location.timestamp - d2.drivingStartTime >= 0
               THEN [d2 EXCEPT !.state = "driving"]
               ELSE d2
       ELSE LET d1 == IF Falsy(d.stationaryStartTime)
                      THEN [d EXCEPT !.stationaryStartTime = location.timestamp]
                      ELSE d
            IN IF location.timestamp - d1.stationaryStartTime >= maxStationaryTime * 1000
               THEN [d1 EXCEPT !.state = "stationary"]
               ELSE d1

\* a detector that takes a sample without a speed for a moving one
processLocation_NullMoves(d, location) ==
    LET currentSpeed == IF location.speed = Null THEN minSpeed ELSE location.speed
        isMoving == currentSpeed >= minSpeed
    IN IF isMoving
       THEN LET d1 == [d EXCEPT !.stationaryStartTime = Null]
                d2 == IF Falsy(d1.drivingStartTime)
                      THEN [d1 EXCEPT !.drivingStartTime = location.timestamp,
                                      !.state = "detecting"]
                      ELSE d1
            IN IF location.timestamp - d2.drivingStartTime >= minDuration * 1000
               THEN [d2 EXCEPT !.state = "driving"]
               ELSE d2
       ELSE LET d1 == IF Falsy(d.stationaryStartTime)
                      THEN [d EXCEPT !.stationaryStartTime = location.timestamp]
                      ELSE d
            IN IF location.timestamp - d1.stationaryStartTime >= maxStationaryTime * 1000
               THEN [d1 EXCEPT !.state = "stationary"]
               ELSE d1

\* processLocation, on the detector's fields; the elapsed times are compared in
\* milliseconds, (t - start) / 1000 >= limit being (t - start) >= limit * 1000.
\* The location history feeds only averageSpeed and is not modelled.
processLocation(d, location) ==
    LET currentSpeed == IF location.speed = Null THEN 0 ELSE location.speed
        isMoving == currentSpeed >= minSpeed
    IN IF isMoving
       THEN LET d1 == [d EXCEPT !.stationaryStartTime = Null]
                d2 == IF Falsy(d1.drivingStartTime)
                      THEN [d1 EXCEPT !.drivingStartTime = location.timestamp,
                                      !.state = "detecting"]
                      ELSE d1
            IN IF location.timestamp - d2.drivingStartTime >= minDuration * 1000
               THEN [d2 EXCEPT !.state = "driving"]
               ELSE d2
       ELSE LET d1 == IF Falsy(d.stationaryStartTime)
                      THEN [d EXCEPT !.stationaryStartTime = location.timestamp]
                      ELSE d
            IN IF location.timestamp - d1.stationaryStartTime >= maxStationaryTime * 1000
               THEN [d1 EXCEPT !.state = "stationary"]
               ELSE d1

\* getResult, for the fields that depend on the detector alone: the durations, in
\* milliseconds, and the confidence, as the quotient of two numbers of milliseconds.
\* Math.min(1, q) is 1 when the numerator of q reaches its denominator.
getResult(d, latestLocation) ==
    LET drivingDuration == IF Falsy(d.drivingStartTime) THEN 0
                           ELSE latestLocation.timestamp - d.drivingStartTime
        stationaryDuration == IF Falsy(d.stationaryStartTime) THEN 0
                              ELSE latestLocation.timestamp - d.stationaryStartTime
        confidence ==
            CASE d.state = "driving" ->
                     IF drivingDuration >= minDuration * 2 * 1000 THEN Ratio(1, 1)
                     ELSE Ratio(drivingDuration, minDuration * 2 * 1000)
              [] d.state = "detecting" -> Ratio(drivingDuration, minDuration * 1000)
              [] OTHER -> Zero
    IN [state |-> d.state, confidence |-> confidence,
        drivingDuration |-> drivingDuration, stationaryDuration |-> stationaryDuration]

(***************************************************************************)
(* BluetoothListener and GPSListener                                       *)
(***************************************************************************)
isCarConnected(w) == \E d \in w.bluetooth.connectedDevices : d.isCarDevice

\* names the scan callback's /car|auto|sync|handsfree/i accepts, among Devices
ScanPatternNames == {"My Car"}

\* the callback startDeviceScan registered; connectedDevices.push, kept as a set
onDeviceConnected(b, device) ==
    [b EXCEPT !.connectedDevices =
        @ \cup {[id |-> device.id, name |-> device.name, isCarDevice |-> TRUE]}]

\* bleManager?.startDeviceScan / stopDeviceScan are calls into the BLE library and
\* can throw when there is a manager; fails chooses that outcome.
startListening(w, fails) ==
    LET w1 == [w EXCEPT !.bluetooth.isScanning = TRUE]
    IN IF fails THEN [w1 EXCEPT !.thrown = TRUE]
       ELSE [w1 EXCEPT !.bluetooth.scanRegistered = w1.bluetooth.bleManager]

stopListening(w, fails) ==
    IF fails THEN [w EXCEPT !.thrown = TRUE]
    ELSE [w EXCEPT !.bluetooth.scanRegistered = FALSE, !.bluetooth.isScanning = FALSE]

BleOutcomes(w) == IF w.bluetooth.bleManager THEN BOOLEAN ELSE {FALSE}

setTrackingMode(w, mode) == [w EXCEPT !.gps.currentMode = mode]

(***************************************************************************)
(* DriveSentry: events and handlers                                        *)
(***************************************************************************)
LocationUpdate(location) == [type |-> "LOCATION_UPDATE", location |-> location]
SessionStarted(session) == [type |-> "SESSION_STARTED", session |-> session]
SessionEnded(session) == [type |-> "SESSION_ENDED", session |-> session]
BluetoothConnected(device) == [type |-> "BLUETOOTH_CONNECTED", device |-> device]
BluetoothDisconnected(device) == [type |-> "BLUETOOTH_DISCONNECTED", device |-> device]
\* the ERROR event carries the error that was caught
ErrorEvent(error) == [type |-> "ERROR", error |-> error]

\* handler(event): the call is made, and a handler may throw
Invoke(w, handler, event) ==
    [w EXCEPT !.invoked = Append(@, [handler |-> handler.id, event |-> event]),
              !.thrown = handler.throws]

\* an emit whose loop has no try/catch: the first throw ends it and leaves emit
RECURSIVE forEachHandler_NoCatch(_, _, _)
forEachHandler_NoCatch(w, handlers, event) ==
    IF Len(handlers) = 0 \/ w.thrown
    THEN w
    ELSE forEachHandler_NoCatch(Invoke(w, Head(handlers), event), Tail(handlers), event)

\* eventHandlers.forEach(handler => { try { handler(event) } catch { console.error } })
RECURSIVE forEachHandler(_, _, _)
forEachHandler(w, handlers, event) ==
    IF Len(handlers) = 0
    THEN w
    ELSE LET w1 == Invoke(w, Head(handlers), event)
             w2 == [w1 EXCEPT !.thrown = FALSE]
         IN forEachHandler(w2, Tail(handlers), event)

\* emitted keeps the events of the step, whoever is subscribed
emit(w, event) ==
    forEachHandler([w EXCEPT !.emitted = Append(@, event)], w.eventHandlers, event)

Frame(kind, arg) == [kind |-> kind, arg |-> arg]

\* a handler that records the detecting sample as the session's first waypoint
handleDrivingDetected_RecordsSample(w, location) ==
    LET w1 == emit([w EXCEPT !.status = "driving"], [type |-> "DRIVING_DETECTED"])
        trigger == IF isCarConnected(w1)
                   THEN BluetoothTrigger("unknown", "Car")
                   ELSE GpsTrigger(location)
        w2 == startSession(w1, trigger)
    IN IF w2.thrown
       THEN [w2 EXCEPT !.thrown = FALSE]
       ELSE [addWaypoint(w2, location) EXCEPT
                !.mq = Append(@, Frame("sessionStarted", w2.ret))]

\* a handler that leaves status as it is until its continuation runs
handleDrivingDetected_StatusLate(w, location) ==
    LET w1 == emit(w, [type |-> "DRIVING_DETECTED"])
        trigger == IF isCarConnected(w1)
                   THEN BluetoothTrigger("unknown", "Car")
                   ELSE GpsTrigger(location)
        w2 == startSession(w1, trigger)
    IN IF w2.thrown
       THEN [w2 EXCEPT !.thrown = FALSE]
       ELSE [w2 EXCEPT !.mq = Append(@, Frame("sessionStarted", w2.ret))]

\* handleDrivingDetected up to its await: startSession runs inside the call.  When it
\* throws, the promise handleLocationUpdate dropped is rejected and nothing follows.
handleDrivingDetected(w, location) ==
    LET w1 == emit([w EXCEPT !.status = "driving"], [type |-> "DRIVING_DETECTED"])
        trigger == IF isCarConnected(w1)
                   THEN BluetoothTrigger("unknown", "Car")
                   ELSE GpsTrigger(location)
        w2 == startSession(w1, trigger)
    IN IF w2.thrown
       THEN [w2 EXCEPT !.thrown = FALSE]
       ELSE [w2 EXCEPT !.mq = Append(@, Frame("sessionStarted", w2.ret))]

handleDrivingPaused(w) ==
    LET w1 == emit([w EXCEPT !.status = "paused"], [type |-> "DRIVING_PAUSED"])
        w2 == pauseSession(w1)
    IN IF w2.thrown THEN w2 ELSE setTrackingMode(w2, "paused")

\* a handler that looks for driving only once the engine has been started
handleLocationUpdate_Gated(w, location) ==
    LET w1 == emit(w, LocationUpdate(location))
        w2 == [w1 EXCEPT !.detector = processLocation(@, location)]
    IN CASE w2.detector.state = "driving" ->
                IF w2.status \in {"idle", "error"} THEN w2
                ELSE IF w2.status # "driving" THEN handleDrivingDetected(w2, location)
                ELSE IF isSessionActive(w2) THEN addWaypoint(w2, location)
                ELSE w2
         [] w2.detector.state = "stationary" ->
                IF w2.status = "driving" THEN handleDrivingPaused(w2) ELSE w2
         [] OTHER -> w2

handleLocationUpdate(w, location) ==
    LET w1 == emit(w, LocationUpdate(location))
        w2 == [w1 EXCEPT !.detector = processLocation(@, location)]
    IN CASE w2.detector.state = "driving" ->
                IF w2.status # "driving" THEN handleDrivingDetected(w2, location)
                ELSE IF isSessionActive(w2) THEN addWaypoint(w2, location)
                ELSE w2
         [] w2.detector.state = "stationary" ->
                IF w2.status = "driving" THEN handleDrivingPaused(w2) ELSE w2
         [] OTHER -> w2

\* the rest of handleDrivingDetected, after the await
sessionStartedContinuation(w, id) ==
    setTrackingMode(emit(w, SessionStarted(w.sessions[id])), "driving")

\* a handler that takes the connect for a trigger in every status
handleCarConnected_AnyStatus(w, device) ==
    LET w1 == emit(w, BluetoothConnected(device))
    IN setTrackingMode([w1 EXCEPT !.status = "detecting"], "driving")

handleCarConnected(w, device) ==
    LET w1 == emit(w, BluetoothConnected(device))
    IN IF w1.status = "monitoring" \/ w1.status = "idle"
       THEN setTrackingMode([w1 EXCEPT !.status = "detecting"], "driving")
       ELSE w1

\* a handler that names the device the way handleDrivingDetected does
handleCarDisconnected_UnknownDevice(w, device) ==
    LET w1 == emit(w, BluetoothDisconnected(device))
    IN IF w1.status = "driving" /\ isSessionActive(w1)
       THEN LET w2 == endSession(w1, BluetoothTrigger("unknown", "Car"))
            IN [w2 EXCEPT !.mq = Append(@, Frame("sessionEnded", w2.ret))]
       ELSE w1

\* a handler that resets the detector when it ends the session
handleCarDisconnected_Resets(w, device) ==
    LET w1 == emit(w, BluetoothDisconnected(device))
    IN IF w1.status = "driving" /\ isSessionActive(w1)
       THEN LET w2 == reset(endSession(w1, BluetoothTrigger(device.id, device.name)))
            IN [w2 EXCEPT !.mq = Append(@, Frame("sessionEnded", w2.ret))]
       ELSE w1

\* handleCarDisconnected up to its await
handleCarDisconnected(w, device) ==
    LET w1 == emit(w, BluetoothDisconnected(device))
    IN IF w1.status = "driving" /\ isSessionActive(w1)
       THEN LET w2 == endSession(w1, BluetoothTrigger(device.id, device.name))
            IN [w2 EXCEPT !.mq = Append(@, Frame("sessionEnded", w2.ret))]
       ELSE w1

\* the rest of handleCarDisconnected, after the await
sessionEndedContinuation(w, session) ==
    setTrackingMode([emit(w, SessionEnded(session)) EXCEPT !.status = "monitoring"],
                    "monitoring")

(***************************************************************************)
(* Bounds on what a step may allocate.                                     *)
(***************************************************************************)
Fits(w) == Len(w.waypoints) <= MaxWaypoints
FitsSM(w) == Len(w.waypoints) <= MaxCalls

Idle == batch = 0                  \* no synchronous loop is running
MayCall == Idle /\ Len(mq) <= MaxPending

\* The record of a stop() or start() invocation: where it stands, the session it
\* ended and the events it emitted.  The outcome of a finished invocation is on
\* view in the state it finishes in and is forgotten at the next step.
NoCall == [pc |-> "none", ended |-> Null, emitted |-> <<>>]
Running(call) == call.pc \in {"afterEnd", "afterBt", "gps"}
Settle(call) == IF Running(call) THEN call ELSE NoCall
Settled ==
    /\ stopCall' = Settle(stopCall)
    /\ startCall' = Settle(startCall)
    /\ UNCHANGED <<result, activeCalls, fed, linked, clock,
                   manuallyTaggedDevices, answer, tagged, held>>

\* no call has been made on the matcher yet
NoAnswer == [op |-> "none", arg |-> Null, value |-> Null]

\* What a caller holds of a session handed out to it: ref is the session object when
\* the caller was given the object itself, value is the copy it was given otherwise;
\* fresh marks the step that handed it out.
NothingHeld == [ref |-> Null, value |-> NoSessionObject, fresh |-> FALSE]

(***************************************************************************)
(* Initial state: the singletons as constructed.                           *)
(***************************************************************************)
Init ==
    /\ status = "idle"
    /\ isInitialized = FALSE
    /\ currentSession = Null
    /\ waypoints = <<>>
    /\ sessions = <<>>
    /\ detector = DetectorInit
    /\ bluetooth = [bleManager |-> FALSE, isScanning |-> FALSE, scanRegistered |-> FALSE,
                    connectedDevices |-> {}]
    /\ gps = [isTracking |-> FALSE, currentMode |-> "monitoring"]
    /\ mq = <<>>
    /\ batch = 0
    /\ stopCall = NoCall
    /\ startCall = NoCall
    /\ emitted = <<>>
    /\ warned = ""
    /\ eventHandlers = <<>>
    /\ invoked = <<>>
    /\ result = [op |-> "none", ok |-> TRUE, value |-> NoSessionObject]
    /\ activeCalls = 0
    /\ fed = NothingFed
    /\ linked = {}
    /\ clock = 0
    /\ manuallyTaggedDevices = <<>>
    /\ answer = NoAnswer
    /\ tagged = {}
    /\ held = NothingHeld

(***************************************************************************)
(* Actions of the orchestrator                                             *)
(***************************************************************************)
\* an initialize() that sets the flag before the setup it guards
Initialize_FlagFirst(ok) ==
    /\ MayCall
    /\ IF isInitialized
       THEN /\ UNCHANGED <<isInitialized, bluetooth>>
            /\ emitted' = <<>>
            /\ invoked' = <<>>
            /\ warned' = "DriveSentry already initialized"
       ELSE IF ok
            THEN /\ bluetooth' = [bluetooth EXCEPT !.bleManager = TRUE]
                 /\ isInitialized' = TRUE
                 /\ emitted' = <<>>
                 /\ invoked' = <<>>
                 /\ warned' = ""
            ELSE /\ UNCHANGED bluetooth
                 /\ isInitialized' = TRUE
                 /\ emitted' = <<ErrorEvent("BleManager")>>
                 /\ invoked' = emit(World, ErrorEvent("BleManager")).invoked
                 /\ warned' = ""
    /\ UNCHANGED <<status, currentSession, waypoints, sessions, detector,
                   gps, mq, batch, eventHandlers>>
    /\ Settled

\* initialize(): new BleManager() is the step that can fail
Initialize(ok) ==
    /\ MayCall
    /\ IF isInitialized
       THEN /\ UNCHANGED <<isInitialized, bluetooth>>
            /\ emitted' = <<>>
            /\ invoked' = <<>>
            /\ warned' = "DriveSentry already initialized"
       ELSE IF ok
            THEN /\ bluetooth' = [bluetooth EXCEPT !.bleManager = TRUE]
                 /\ isInitialized' = TRUE
                 /\ emitted' = <<>>
                 /\ invoked' = <<>>
                 /\ warned' = ""
            ELSE /\ UNCHANGED <<isInitialized, bluetooth>>
                 /\ emitted' = <<ErrorEvent("BleManager")>>
                 /\ invoked' = emit(World, ErrorEvent("BleManager")).invoked
                 /\ warned' = ""
    /\ UNCHANGED <<status, currentSession, waypoints, sessions, detector,
                   gps, mq, batch, eventHandlers>>
    /\ Settled

\* processLocationUpdates(locations), with n samples in locations: the call and the
\* first turn of its loop.  The samples do not depend on the state, and the model
\* draws each when its turn comes.  A throw out of handleLocationUpdate ends the loop.
ProcessLocationUpdates(location, n) ==
    /\ MayCall
    /\ LET w == handleLocationUpdate(World, location)
       IN /\ Fits(w)
          /\ n - 1 <= MaxWaypoints - Len(w.waypoints)
          /\ Commit(w)
          /\ batch' = IF w.thrown THEN 0 ELSE n - 1
    /\ UNCHANGED isInitialized
    /\ Settled

\* the next turn of the loop; nothing else runs until the loop is over
ProcessNext(location) ==
    /\ batch > 0
    /\ LET w == handleLocationUpdate(World, location)
       IN /\ Commit(w)
          /\ batch' = IF w.thrown THEN 0 ELSE batch - 1
    /\ UNCHANGED isInitialized
    /\ Settled

RunSessionStarted ==
    /\ Idle /\ mq # <<>> /\ Head(mq).kind = "sessionStarted"
    /\ Commit(sessionStartedContinuation([World EXCEPT !.mq = Tail(@)], Head(mq).arg))
    /\ UNCHANGED <<isInitialized, batch>>
    /\ Settled

HandleCarConnected(device) ==
    /\ MayCall
    /\ Commit(handleCarConnected(World, device))
    /\ UNCHANGED <<isInitialized, batch>>
    /\ Settled

HandleCarDisconnected(device) ==
    /\ MayCall
    /\ Commit(handleCarDisconnected(World, device))
    /\ UNCHANGED <<isInitialized, batch>>
    /\ Settled

RunSessionEnded ==
    /\ Idle /\ mq # <<>> /\ Head(mq).kind = "sessionEnded"
    /\ Commit(sessionEndedContinuation([World EXCEPT !.mq = Tail(@)], Head(mq).arg))
    /\ UNCHANGED <<isInitialized, batch>>
    /\ Settled

\* the BLE scan reports a device
ScanCallback(device) ==
    /\ Idle
    /\ bluetooth.scanRegistered
    /\ device.name \in ScanPatternNames
    /\ bluetooth' = onDeviceConnected(bluetooth, device)
    /\ emitted' = <<>>
    /\ warned' = ""
    /\ invoked' = <<>>
    /\ UNCHANGED <<status, isInitialized, currentSession, waypoints, sessions, detector, gps,
                   mq, batch, eventHandlers>>
    /\ Settled

(***************************************************************************)
(* stop(): try { end the session; stop the Bluetooth feed; stop the        *)
(* location feed; reset the detector; status = idle } catch { emit ERROR } *)
(* The host awaits a start() or stop() before it calls either again.       *)
(***************************************************************************)
StopRunning == Running(stopCall)

\* up to the first await: await endSession(...) when a session is there, else
\* await stopListening()
StopCall(fails) ==
    /\ MayCall
    /\ ~StopRunning /\ ~Running(startCall)
    /\ IF isSessionActive(World)
       THEN /\ fails = FALSE
            /\ LET w == endSession(World, ManualTrigger)
               IN Commit([w EXCEPT !.mq = Append(@, Frame("stopAfterEnd", FALSE))])
            /\ stopCall' = [pc |-> "afterEnd", ended |-> currentSession, emitted |-> <<>>]
       ELSE /\ fails \in BleOutcomes(World)
            /\ LET w == stopListening(World, fails)
               IN Commit([w EXCEPT !.mq = Append(@, Frame("stopAfterBt", fails))])
            /\ stopCall' = [pc |-> "afterBt", ended |-> Null, emitted |-> <<>>]
    /\ UNCHANGED <<isInitialized, batch, result, activeCalls, fed, linked, clock,
                   manuallyTaggedDevices, answer, tagged, held>>
    /\ startCall' = Settle(startCall)

\* after await endSession: await stopListening()
StopAfterEnd(fails) ==
    /\ Idle /\ mq # <<>> /\ Head(mq).kind = "stopAfterEnd"
    /\ fails \in BleOutcomes(World)
    /\ LET w == stopListening([World EXCEPT !.mq = Tail(@)], fails)
       IN Commit([w EXCEPT !.mq = Append(@, Frame("stopAfterBt", fails))])
    /\ stopCall' = [stopCall EXCEPT !.pc = "afterBt"]
    /\ UNCHANGED <<isInitialized, batch, result, activeCalls, fed, linked, clock,
                   manuallyTaggedDevices, answer, tagged, held>>
    /\ startCall' = Settle(startCall)

\* after await stopListening(): the catch block when it threw, else
\* await stopBackgroundTracking(), which waits for the location service
StopAfterBt ==
    /\ Idle /\ mq # <<>> /\ Head(mq).kind = "stopAfterBt"
    /\ LET w == [World EXCEPT !.mq = Tail(@)]
       IN IF Head(mq).arg
          THEN /\ Commit(emit(w, ErrorEvent("stopDeviceScan")))
               /\ stopCall' = [stopCall EXCEPT !.pc = "failed",
                                               !.emitted = Append(@, ErrorEvent("stopDeviceScan"))]
          ELSE /\ Commit(w)
               /\ stopCall' = [stopCall EXCEPT !.pc = "gps"]
    /\ UNCHANGED <<isInitialized, batch, result, activeCalls, fed, linked, clock,
                   manuallyTaggedDevices, answer, tagged, held>>
    /\ startCall' = Settle(startCall)

\* stopLocationUpdatesAsync has answered (stopBackgroundTracking swallows its
\* error): drivingDetector.reset(); status = 'idle'
StopAfterGps(ok) ==
    /\ Idle /\ mq = <<>> /\ stopCall.pc = "gps"
    /\ LET w1 == IF ok THEN [World EXCEPT !.gps.isTracking = FALSE] ELSE World
       IN Commit([reset(w1) EXCEPT !.status = "idle"])
    /\ stopCall' = [stopCall EXCEPT !.pc = "done"]
    /\ UNCHANGED <<isInitialized, batch, result, activeCalls, fed, linked, clock,
                   manuallyTaggedDevices, answer, tagged, held>>
    /\ startCall' = Settle(startCall)

(***************************************************************************)
(* start(): if (!isInitialized) throw; if (status !== 'idle') return;      *)
(* try { start the Bluetooth feed; start the location feed;                *)
(* status = monitoring } catch { status = error; emit ERROR; rethrow }     *)
(***************************************************************************)
StartRunning == Running(startCall)

\* a start() that does not ask whether initialize() has run
StartCall_Uninitialized(fails) ==
    /\ MayCall
    /\ ~StartRunning /\ ~StopRunning
    /\ IF status # "idle"
       THEN /\ fails = FALSE
            /\ Commit([World EXCEPT !.warned = "DriveSentry already running"])
            /\ startCall' = [NoCall EXCEPT !.pc = "noop"]
       ELSE /\ fails \in BleOutcomes(World)
            /\ LET w == startListening(World, fails)
               IN Commit([w EXCEPT !.mq = Append(@, Frame("startAfterBt", fails))])
            /\ startCall' = [NoCall EXCEPT !.pc = "afterBt"]
    /\ UNCHANGED <<isInitialized, batch, result, activeCalls, fed, linked, clock,
                   manuallyTaggedDevices, answer, tagged, held>>
    /\ stopCall' = Settle(stopCall)

\* a start() whose catch block leaves status as it was
StartAfterBt_KeepsStatus ==
    /\ Idle /\ mq # <<>> /\ Head(mq).kind = "startAfterBt"
    /\ LET w == [World EXCEPT !.mq = Tail(@)]
       IN IF Head(mq).arg
          THEN /\ Commit(emit(w, ErrorEvent("startDeviceScan")))
               /\ startCall' = [startCall EXCEPT
                                   !.pc = "failed",
                                   !.emitted = Append(@, ErrorEvent("startDeviceScan"))]
          ELSE /\ Commit(w)
               /\ startCall' = [startCall EXCEPT !.pc = "gps"]
    /\ UNCHANGED <<isInitialized, batch, result, activeCalls, fed, linked, clock,
                   manuallyTaggedDevices, answer, tagged, held>>
    /\ stopCall' = Settle(stopCall)

StartCall(fails) ==
    /\ MayCall
    /\ ~StartRunning /\ ~StopRunning
    /\ IF ~isInitialized
       THEN /\ fails = FALSE
            /\ Commit(World)
            /\ startCall' = [NoCall EXCEPT !.pc = "rejected"]
       ELSE IF status # "idle"
       THEN /\ fails = FALSE
            /\ Commit([World EXCEPT !.warned = "DriveSentry already running"])
            /\ startCall' = [NoCall EXCEPT !.pc = "noop"]
       ELSE /\ fails \in BleOutcomes(World)
            /\ LET w == startListening(World, fails)
               IN Commit([w EXCEPT !.mq = Append(@, Frame("startAfterBt", fails))])
            /\ startCall' = [NoCall EXCEPT !.pc = "afterBt"]
    /\ UNCHANGED <<isInitialized, batch, result, activeCalls, fed, linked, clock,
                   manuallyTaggedDevices, answer, tagged, held>>
    /\ stopCall' = Settle(stopCall)

\* after await startListening(): the catch block when it threw, else
\* await startBackgroundTracking(), which waits for the location service
StartAfterBt ==
    /\ Idle /\ mq # <<>> /\ Head(mq).kind = "startAfterBt"
    /\ LET w == [World EXCEPT !.mq = Tail(@)]
       IN IF Head(mq).arg
          THEN /\ Commit(emit([w EXCEPT !.status = "error"], ErrorEvent("startDeviceScan")))
               /\ startCall' = [startCall EXCEPT
                                   !.pc = "failed",
                                   !.emitted = Append(@, ErrorEvent("startDeviceScan"))]
          ELSE /\ Commit(w)
               /\ startCall' = [startCall EXCEPT !.pc = "gps"]
    /\ UNCHANGED <<isInitialized, batch, result, activeCalls, fed, linked, clock,
                   manuallyTaggedDevices, answer, tagged, held>>
    /\ stopCall' = Settle(stopCall)

\* startLocationUpdatesAsync has answered
StartAfterGps(ok) ==
    /\ Idle /\ mq = <<>> /\ startCall.pc = "gps"
    /\ IF ok
       THEN /\ Commit([World EXCEPT !.gps.isTracking = TRUE, !.status = "monitoring"])
            /\ startCall' = [startCall EXCEPT !.pc = "done"]
       ELSE /\ Commit(emit([World EXCEPT !.status = "error"],
                            ErrorEvent("startLocationUpdates")))
            /\ startCall' = [startCall EXCEPT
                                !.pc = "failed",
                                !.emitted = Append(@, ErrorEvent("startLocationUpdates"))]
    /\ UNCHANGED <<isInitialized, batch, result, activeCalls, fed, linked, clock,
                   manuallyTaggedDevices, answer, tagged, held>>
    /\ stopCall' = Settle(stopCall)

Next ==
    \/ \E ok \in BOOLEAN : Initialize(ok)
    \/ \E location \in Locations, n \in 1..MaxBatch : ProcessLocationUpdates(location, n)
    \/ \E location \in Locations : ProcessNext(location)
    \/ RunSessionStarted
    \/ \E device \in Devices : HandleCarConnected(device)
    \/ \E device \in Devices : HandleCarDisconnected(device)
    \/ RunSessionEnded
    \/ \E fails \in BOOLEAN : StopCall(fails)
    \/ \E fails \in BOOLEAN : StopAfterEnd(fails)
    \/ StopAfterBt
    \/ \E ok \in BOOLEAN : StopAfterGps(ok)
    \/ \E fails \in BOOLEAN : StartCall(fails)
    \/ StartAfterBt
    \/ \E ok \in BOOLEAN : StartAfterGps(ok)
    \/ \E device \in Devices : ScanCallback(device)

Spec == Init /\ [][Next]_vars

(***************************************************************************)
(* SessionManager called directly, in any order.                           *)
(***************************************************************************)
SMLocations == {[timestamp |-> 0, speed |-> 0, latitude |-> 0],
                [timestamp |-> minDuration * 1000, speed |-> minSpeed + 1, latitude |-> 0]}
Triggers == {ManualTrigger, BluetoothTrigger("d1", "My Car")}

Outcome(op, w, value) == [op |-> op, ok |-> ~w.thrown, value |-> value]

CommitSM(w) ==
    /\ currentSession' = w.currentSession
    /\ waypoints' = w.waypoints
    /\ sessions' = Collect(w)
    /\ UNCHANGED <<status, isInitialized, detector, bluetooth, gps, mq, batch, stopCall,
                   startCall, emitted, warned, fed, linked, eventHandlers, invoked, clock,
                   manuallyTaggedDevices, answer, tagged, held>>

SMStartSession(trigger) ==
    LET w == startSession(World, trigger)
    IN /\ FitsSM(w)
       /\ CommitSM(w)
       /\ result' = Outcome("startSession", w,
                            IF w.thrown THEN NoSessionObject ELSE w.sessions[w.ret])
       /\ activeCalls' = IF w.thrown THEN activeCalls ELSE 0

SMPauseSession ==
    LET w == pauseSession(World)
    IN /\ CommitSM(w)
       /\ result' = Outcome("pauseSession", w, NoSessionObject)
       /\ UNCHANGED activeCalls

SMResumeSession ==
    LET w == resumeSession(World)
    IN /\ CommitSM(w)
       /\ result' = Outcome("resumeSession", w, NoSessionObject)
       /\ UNCHANGED activeCalls

SMAddWaypoint(location) ==
    LET w == addWaypoint(World, location)
    IN /\ FitsSM(w)
       /\ CommitSM(w)
       /\ result' = Outcome("addWaypoint", w, NoSessionObject)
       /\ activeCalls' = IF getCurrentSession(World).status = "active"
                         THEN activeCalls + 1 ELSE activeCalls

SMEndSession(trigger) ==
    LET w == endSession(World, trigger)
    IN /\ CommitSM(w)
       /\ result' = Outcome("endSession", w, IF w.thrown THEN NoSessionObject ELSE w.ret)
       /\ UNCHANGED activeCalls

NextSM ==
    \/ \E trigger \in Triggers : SMStartSession(trigger)
    \/ SMPauseSession
    \/ SMResumeSession
    \/ \E location \in SMLocations : SMAddWaypoint(location)
    \/ \E trigger \in Triggers : SMEndSession(trigger)

SpecSM == Init /\ [][NextSM]_vars

(***************************************************************************)
(* SessionManager called directly while the clock runs: the samples lie    *)
(* at different places, and time passes between the calls.                 *)
(***************************************************************************)
StatLocations == [timestamp : {0}, speed : {minSpeed + 1}, latitude : {0, 50}]

\* a second passes
Tick ==
    /\ clock < MaxClock * 1000
    /\ clock' = clock + 1000
    /\ UNCHANGED <<status, isInitialized, currentSession, waypoints, sessions, detector,
                   bluetooth, gps, mq, batch, stopCall, startCall, emitted, warned, result,
                   activeCalls, fed, linked, eventHandlers, invoked,
                   manuallyTaggedDevices, answer, tagged, held>>

NextStats ==
    \/ Tick
    \/ \E trigger \in Triggers : SMStartSession(trigger)
    \/ SMPauseSession
    \/ SMResumeSession
    \/ \E location \in StatLocations : SMAddWaypoint(location)
    \/ \E trigger \in Triggers : SMEndSession(trigger)

SpecStats == Init /\ [][NextStats]_vars

(***************************************************************************)
(* DrivingDetector called directly, on a feed whose timestamps never go    *)
(* back: one sample every ten seconds at most.                             *)
(***************************************************************************)
DetTimes == {k * 10 * 1000 : k \in 0..MaxTicks}
\* speed: number | null
DetSpeeds == Speeds \cup {Null}
DetLocations == [timestamp : DetTimes, speed : DetSpeeds]

DetProcessLocation(location) ==
    /\ location.timestamp >= fed.clock
    /\ detector' = processLocation(detector, location)
    /\ fed' = [first |-> IF fed.first = Null THEN location.timestamp ELSE fed.first,
               firstMoving |-> IF fed.firstMoving = Null /\ location.speed >= minSpeed
                               THEN location.timestamp ELSE fed.firstMoving,
               allMoving |-> fed.allMoving /\ location.speed >= minSpeed,
               sample |-> location,
               returned |-> detector'.state,
               confidence |-> getResult(detector', location).confidence,
               lastSlow |-> IF location.speed >= minSpeed THEN fed.lastSlow
                            ELSE location.timestamp,
               runStart |-> IF location.speed >= minSpeed THEN Null
                            ELSE IF fed.runStart = Null THEN location.timestamp
                            ELSE fed.runStart,
               twin |-> processLocation(fed.twin, location),
               afterReset |-> fed.afterReset,
               clock |-> location.timestamp]
    /\ UNCHANGED <<status, isInitialized, currentSession, waypoints, sessions, bluetooth,
                   gps, mq, batch, stopCall, startCall, emitted, result, activeCalls,
                   linked, warned, eventHandlers, invoked, clock,
                   manuallyTaggedDevices, answer, tagged, held>>

DetReset ==
    /\ detector' = reset(World).detector
    /\ fed' = [NothingFed EXCEPT !.clock = fed.clock, !.afterReset = fed.clock # Null]
    /\ UNCHANGED <<status, isInitialized, currentSession, waypoints, sessions, bluetooth,
                   gps, mq, batch, stopCall, startCall, emitted, result, activeCalls,
                   linked, warned, eventHandlers, invoked, clock,
                   manuallyTaggedDevices, answer, tagged, held>>

NextDet ==
    \/ \E location \in DetLocations : DetProcessLocation(location)
    \/ DetReset

SpecDet == Init /\ [][NextDet]_vars

(***************************************************************************)
(* The engine without stop(), with the Bluetooth links kept on record:     *)
(* a device is linked from its connect event, or from the scan reporting   *)
(* it, to its disconnect event.                                            *)
(***************************************************************************)
BtSettled ==
    /\ stopCall' = Settle(stopCall)
    /\ startCall' = Settle(startCall)
    /\ UNCHANGED <<isInitialized, batch, result, activeCalls, fed, clock,
                   manuallyTaggedDevices, answer, tagged, held>>

BtConnect(device) ==
    /\ MayCall
    /\ Commit(handleCarConnected(World, device))
    /\ linked' = linked \cup {device.id}
    /\ BtSettled

BtDisconnect(device) ==
    /\ MayCall
    /\ Commit(handleCarDisconnected(World, device))
    /\ linked' = linked \ {device.id}
    /\ BtSettled

BtScan(device) ==
    /\ Idle
    /\ bluetooth.scanRegistered
    /\ device.name \in ScanPatternNames
    /\ bluetooth' = onDeviceConnected(bluetooth, device)
    /\ emitted' = <<>>
    /\ warned' = ""
    /\ invoked' = <<>>
    /\ linked' = linked \cup {device.id}
    /\ UNCHANGED <<status, currentSession, waypoints, sessions, detector, gps, mq,
                   eventHandlers>>
    /\ BtSettled

NextBt ==
    \/ \E ok \in BOOLEAN : Initialize(ok)
    \/ \E fails \in BOOLEAN : StartCall(fails)
    \/ StartAfterBt
    \/ \E ok \in BOOLEAN : StartAfterGps(ok)
    \/ \E device \in Devices : BtScan(device)
    \/ \E device \in Devices : BtConnect(device)
    \/ \E device \in Devices : BtDisconnect(device)
    \/ \E location \in Locations : ProcessLocationUpdates(location, 1)
    \/ RunSessionStarted
    \/ RunSessionEnded

SpecBt == Init /\ [][NextBt]_vars

(***************************************************************************)
(* The engine with subscribers: handlers are subscribed and unsubscribed   *)
(* between the events, and some of them throw.                             *)
(***************************************************************************)
Handlers == { [id |-> "h1", throws |-> FALSE], [id |-> "h2", throws |-> TRUE],
              [id |-> "h3", throws |-> FALSE] }

Subscribed == {eventHandlers[i] : i \in DOMAIN eventHandlers}

\* Set.delete, on the insertion order
RECURSIVE Without(_, _)
Without(handlers, handler) ==
    IF Len(handlers) = 0 THEN <<>>
    ELSE IF Head(handlers) = handler THEN Without(Tail(handlers), handler)
    ELSE <<Head(handlers)>> \o Without(Tail(handlers), handler)

\* subscribe(handler): Set.add
Subscribe(handler) ==
    /\ MayCall
    /\ eventHandlers' = IF handler \in Subscribed THEN eventHandlers
                        ELSE Append(eventHandlers, handler)
    /\ emitted' = <<>> /\ invoked' = <<>> /\ warned' = ""
    /\ UNCHANGED <<status, isInitialized, currentSession, waypoints, sessions, detector,
                   bluetooth, gps, mq, batch>>
    /\ Settled

\* the function subscribe returned
Unsubscribe(handler) ==
    /\ MayCall
    /\ eventHandlers' = Without(eventHandlers, handler)
    /\ emitted' = <<>> /\ invoked' = <<>> /\ warned' = ""
    /\ UNCHANGED <<status, isInitialized, currentSession, waypoints, sessions, detector,
                   bluetooth, gps, mq, batch>>
    /\ Settled

NextEmit ==
    \/ \E handler \in Handlers : Subscribe(handler)
    \/ \E handler \in Handlers : Unsubscribe(handler)
    \/ \E device \in Devices : HandleCarConnected(device)
    \/ \E device \in Devices : HandleCarDisconnected(device)
    \/ \E location \in Locations : ProcessLocationUpdates(location, 1)
    \/ RunSessionStarted
    \/ RunSessionEnded

SpecEmit == Init /\ [][NextEmit]_vars

(***************************************************************************)
(* CarBluetoothMatcher.  A device name is the sequence of its characters.  *)
(***************************************************************************)
UpperCase == <<"A", "B", "C", "D", "E", "F", "G", "H", "I", "J", "K", "L", "M",
               "N", "O", "P", "Q", "R", "S", "T", "U", "V", "W", "X", "Y", "Z">>
LowerCase == <<"a", "b", "c", "d", "e", "f", "g", "h", "i", "j", "k", "l", "m",
               "n", "o", "p", "q", "r", "s", "t", "u", "v", "w", "x", "y", "z">>

toLowerCase(char) ==
    IF \E i \in DOMAIN UpperCase : UpperCase[i] = char
    THEN LowerCase[CHOOSE i \in DOMAIN UpperCase : UpperCase[i] = char]
    ELSE char

\* /pattern/i.test(text), for a pattern of plain lower-case characters
Test(pattern, text) ==
    \E i \in 0..(Len(text) - Len(pattern)) :
        \A j \in 1..Len(pattern) : toLowerCase(text[i + j]) = pattern[j]

CarPatterns ==
    << <<"c", "a", "r">>,
       <<"a", "u", "t", "o">>,
       <<"s", "y", "n", "c">>,
       <<"c", "a", "r", "p", "l", "a", "y">>,
       <<"a", "n", "d", "r", "o", "i", "d", " ", "a", "u", "t", "o">>,
       <<"h", "a", "n", "d", "s", "f", "r", "e", "e">>,
       <<"v", "e", "h", "i", "c", "l", "e">>,
       <<"h", "o", "n", "d", "a">>,
       <<"t", "o", "y", "o", "t", "a">>,
       <<"f", "o", "r", "d">>,
       <<"b", "m", "w">>,
       <<"m", "e", "r", "c", "e", "d", "e", "s">>,
       <<"a", "u", "d", "i">>,
       <<"v", "o", "l", "k", "s", "w", "a", "g", "e", "n">>,
       <<"c", "h", "e", "v", "r", "o", "l", "e", "t">>,
       <<"n", "i", "s", "s", "a", "n">>,
       <<"h", "y", "u", "n", "d", "a", "i">>,
       <<"k", "i", "a">>,
       <<"m", "a", "z", "d", "a">>,
       <<"s", "u", "b", "a", "r", "u">>,
       <<"l", "e", "x", "u", "s">>,
       <<"j", "e", "e", "p">>,
       <<"t", "e", "s", "l", "a">> >>

matchesCarPattern(deviceName) ==
    \E k \in DOMAIN CarPatterns : Test(CarPatterns[k], deviceName)

\* Map.has, Map.set and Map.delete on the entries of a Map, kept in insertion order
MapHas(entries, key) == \E i \in DOMAIN entries : entries[i].key = key

\* a set that adds an entry whether or not the key is there
MapSet_Push(entries, key, value) == Append(entries, [key |-> key, value |-> value])

MapSet(entries, key, value) ==
    IF MapHas(entries, key)
    THEN [i \in DOMAIN entries |->
             IF entries[i].key = key THEN [key |-> key, value |-> value] ELSE entries[i]]
    ELSE Append(entries, [key |-> key, value |-> value])

MapDelete(entries, key) ==
    IF MapHas(entries, key)
    THEN LET at == CHOOSE i \in DOMAIN entries :
                       entries[i].key = key /\ \A j \in 1..(i - 1) : entries[j].key # key
         IN SubSeq(entries, 1, at - 1) \o SubSeq(entries, at + 1, Len(entries))
    ELSE entries

isCarDevice(entries, device) ==
    IF MapHas(entries, device.id) THEN TRUE ELSE matchesCarPattern(device.name)

\* the record tagAsCarDevice makes of a device
CarDevice(device, now) ==
    [id |-> device.id, name |-> device.name, type |-> "manual",
     lastConnected |-> now, createdAt |-> now]

MatcherNames == { <<"M", "y", " ", "C", "a", "r">>,
                  <<"H", "e", "a", "d", "s", "e", "t">>,
                  <<"T", "E", "S", "L", "A">> }
MatcherIds == {"d1", "d2"}
MatcherDevices == [id : MatcherIds, name : MatcherNames]

\* a call on the matcher touches nothing of the engine
MatcherOnly ==
    UNCHANGED <<status, isInitialized, currentSession, waypoints, sessions, detector,
                bluetooth, gps, mq, batch, stopCall, startCall, emitted, warned, result,
                activeCalls, fed, linked, eventHandlers, invoked, clock, held>>

IsCarDevice(device) ==
    /\ answer' = [op |-> "isCarDevice", arg |-> device,
                  value |-> isCarDevice(manuallyTaggedDevices, device)]
    /\ UNCHANGED <<manuallyTaggedDevices, tagged>>
    /\ MatcherOnly

TagAsCarDevice(device) ==
    /\ Len(manuallyTaggedDevices) <= MaxTags
    /\ manuallyTaggedDevices' =
           MapSet(manuallyTaggedDevices, device.id, CarDevice(device, clock))
    /\ answer' = [op |-> "tagAsCarDevice", arg |-> device,
                  value |-> CarDevice(device, clock)]
    /\ tagged' = tagged \cup {device.id}
    /\ MatcherOnly

UntagCarDevice(deviceId) ==
    /\ manuallyTaggedDevices' = MapDelete(manuallyTaggedDevices, deviceId)
    /\ answer' = [op |-> "untagCarDevice", arg |-> deviceId,
                  value |-> MapHas(manuallyTaggedDevices, deviceId)]
    /\ tagged' = tagged \ {deviceId}
    /\ MatcherOnly

NextMatcher ==
    \/ \E device \in MatcherDevices : IsCarDevice(device)
    \/ \E device \in MatcherDevices : TagAsCarDevice(device)
    \/ \E deviceId \in MatcherIds : UntagCarDevice(deviceId)

SpecMatcher == Init /\ [][NextMatcher]_vars

(***************************************************************************)
(* SessionManager called directly by a caller that holds on to a session   *)
(* it was given, and writes to it.                                         *)
(***************************************************************************)
\* the session the caller sees when it reads what it holds
HeldValue == IF held.ref # Null THEN sessions[held.ref] ELSE held.value
Holding == held.ref # Null \/ held.value.status # "none"

\* The caller keeps what it holds over a call that left the manager in w.  An object
\* the manager no longer refers to lives on with the caller alone.
Keep(w) ==
    IF held.ref # Null /\ held.ref # w.currentSession
    THEN [ref |-> Null, value |-> w.sessions[held.ref], fresh |-> FALSE]
    ELSE [held EXCEPT !.fresh = FALSE]

\* the caller takes the object itself, or a copy of a session
TakeObject(id) == [ref |-> id, value |-> NoSessionObject, fresh |-> TRUE]
TakeCopy(session) == [ref |-> Null, value |-> session, fresh |-> TRUE]

CommitHeld(w) ==
    /\ currentSession' = w.currentSession
    /\ waypoints' = w.waypoints
    /\ sessions' = [i \in DOMAIN Collect(w) \cup
                          (IF held'.ref # Null THEN {held'.ref} ELSE {}) |-> w.sessions[i]]
    /\ UNCHANGED <<status, isInitialized, detector, bluetooth, gps, mq, batch, stopCall,
                   startCall, emitted, warned, activeCalls, fed, linked, eventHandlers,
                   invoked, clock, manuallyTaggedDevices, answer, tagged>>

\* const session = await startSession(trigger): return session, the object itself
HeldStartSession(trigger, takes) ==
    LET w == startSession(World, trigger)
    IN /\ result' = Outcome("startSession", w,
                            IF w.thrown THEN NoSessionObject ELSE w.sessions[w.ret])
       /\ held' = IF takes /\ ~w.thrown THEN TakeObject(w.ret) ELSE Keep(w)
       /\ CommitHeld(w)

\* getCurrentSession(): a copy { ...this.currentSession }, or null
HeldGetCurrentSession ==
    /\ currentSession # Null
    /\ result' = Outcome("getCurrentSession", World, getCurrentSession(World))
    /\ held' = TakeCopy(getCurrentSession(World))
    /\ CommitHeld(World)

HeldPauseSession ==
    LET w == pauseSession(World)
    IN /\ result' = Outcome("pauseSession", w, NoSessionObject)
       /\ held' = Keep(w)
       /\ CommitHeld(w)

HeldResumeSession ==
    LET w == resumeSession(World)
    IN /\ result' = Outcome("resumeSession", w, NoSessionObject)
       /\ held' = Keep(w)
       /\ CommitHeld(w)

HeldAddWaypoint(location) ==
    LET w == addWaypoint(World, location)
    IN /\ FitsSM(w)
       /\ result' = Outcome("addWaypoint", w, NoSessionObject)
       /\ held' = Keep(w)
       /\ CommitHeld(w)

\* const session = await endSession(trigger): a copy { ...this.currentSession }
HeldEndSession(trigger, takes) ==
    LET w == endSession(World, trigger)
    IN /\ result' = Outcome("endSession", w, IF w.thrown THEN NoSessionObject ELSE w.ret)
       /\ held' = IF takes /\ ~w.thrown THEN TakeCopy(w.ret) ELSE Keep(w)
       /\ CommitHeld(w)

\* the caller writes to the session it holds: session.status = 'completed'
ReceiverWrites ==
    /\ Holding
    /\ result' = Outcome("receiverWrites", World, NoSessionObject)
    /\ IF held.ref # Null
       THEN LET w == [World EXCEPT !.sessions[held.ref].status = "completed"]
            IN /\ held' = [held EXCEPT !.fresh = FALSE]
               /\ CommitHeld(w)
       ELSE /\ held' = [held EXCEPT !.value.status = "completed", !.fresh = FALSE]
            /\ CommitHeld(World)

NextHeld ==
    \/ \E trigger \in Triggers, takes \in BOOLEAN : HeldStartSession(trigger, takes)
    \/ HeldGetCurrentSession
    \/ HeldPauseSession
    \/ HeldResumeSession
    \/ \E location \in SMLocations : HeldAddWaypoint(location)
    \/ \E trigger \in Triggers, takes \in BOOLEAN : HeldEndSession(trigger, takes)
    \/ ReceiverWrites

SpecHeld == Init /\ [][NextHeld]_vars

(***************************************************************************)
(* The engine under bursts: samples come in batches, and disconnect events *)
(* come one behind the other, before the continuation of the first has run.*)
(***************************************************************************)
BurstDisconnect(device) ==
    /\ Idle
    /\ Len(mq) < MaxBurst
    /\ Commit(handleCarDisconnected(World, device))
    /\ UNCHANGED <<isInitialized, batch>>
    /\ Settled

NextBurst ==
    \/ \E location \in Locations, n \in 1..MaxBatch : ProcessLocationUpdates(location, n)
    \/ \E location \in Locations : ProcessNext(location)
    \/ RunSessionStarted
    \/ \E device \in Devices : BurstDisconnect(device)
    \/ RunSessionEnded

SpecBurst == Init /\ [][NextBurst]_vars

(***************************************************************************)
(* The engine when its host's calls overlap: start() is called and not     *)
(* awaited, and samples and disconnect events are handed in before the     *)
(* continuations queued so far have run.                                   *)
(***************************************************************************)
OverlapSample(location) ==
    /\ Idle
    /\ Len(mq) < MaxOverlap
    /\ LET w == handleLocationUpdate(World, location)
       IN /\ Fits(w)
          /\ Commit(w)
    /\ UNCHANGED <<isInitialized, batch>>
    /\ Settled

OverlapDisconnect(device) ==
    /\ Idle
    /\ Len(mq) < MaxOverlap
    /\ Commit(handleCarDisconnected(World, device))
    /\ UNCHANGED <<isInitialized, batch>>
    /\ Settled

NextOverlap ==
    \/ \E ok \in BOOLEAN : Initialize(ok)
    \/ \E fails \in BOOLEAN : StartCall(fails)
    \/ StartAfterBt
    \/ \E ok \in BOOLEAN : StartAfterGps(ok)
    \/ \E location \in Locations : OverlapSample(location)
    \/ RunSessionStarted
    \/ \E device \in Devices : OverlapDisconnect(device)
    \/ RunSessionEnded

SpecOverlap == Init /\ [][NextOverlap]_vars

(***************************************************************************)
(* Properties                                                              *)
(***************************************************************************)
HasEvent(events, type) == \E i \in DOMAIN events : events[i].type = type
CountEvents(events, type) == Cardinality({i \in DOMAIN events : events[i].type = type})

\* the step handles a location sample: its first event is the sample's LOCATION_UPDATE
SampleStep == emitted' # <<>> /\ emitted'[1].type = "LOCATION_UPDATE"

\* a continuation of handleDrivingDetected or handleCarDisconnected is waiting
PendingHandler == \E i \in DOMAIN mq : mq[i].kind \in {"sessionStarted", "sessionEnded"}

\* no handler is part-way: nothing waits in mq, no loop and no stop() is running
Quiescent == mq = <<>> /\ batch = 0 /\ ~StopRunning

OpenSessions == {i \in DOMAIN sessions : sessions[i].status # "completed"}

\* C1: at most one session that is not completed exists, and it is the manager's
\* current session: startSession never leaves an active or paused session behind.
C1_SingleOpenSession ==
    /\ Cardinality(OpenSessions) <= 1
    /\ \A i \in OpenSessions : i = currentSession

\* driving was detected again while the paused session was still there
C1_Witness ==
    /\ HasEvent(emitted, "DRIVING_DETECTED")
    /\ currentSession # Null
    /\ sessions[currentSession].status = "paused"

\* C2: a stop() that found a session open has, when it is done, emitted exactly one
\* SESSION_ENDED, carrying a session whose endTrigger is manual, and status is idle.
C2_StopEmitsSessionEnded ==
    (stopCall.pc = "done" /\ stopCall.ended # Null) =>
        /\ CountEvents(stopCall.emitted, "SESSION_ENDED") = 1
        /\ \A i \in DOMAIN stopCall.emitted :
               stopCall.emitted[i].type = "SESSION_ENDED" =>
                   stopCall.emitted[i].session.endTrigger.type = "manual"
        /\ status = "idle"

\* C3: a Bluetooth disconnect handled while status is driving and a session is open
\* ends that session with a bluetooth trigger naming the device; the continuation
\* emits SESSION_ENDED for it and sets status and feed mode to monitoring; and no
\* other step emits a SESSION_ENDED.
C3_DisconnectEndsSession ==
    [][ /\ \A d \in Devices :
              ( /\ emitted' # <<>>
                /\ emitted'[1].type = "BLUETOOTH_DISCONNECTED"
                /\ emitted'[1].device = d
                /\ status = "driving"
                /\ isSessionActive(World) )
              => /\ currentSession' = Null
                 /\ mq' = Append(mq, Frame("sessionEnded",
                          [sessions[currentSession] EXCEPT
                              !.status = "completed",
                              !.endTime = clock,
                              !.endTrigger = BluetoothTrigger(d.id, d.name),
                              !.waypointCount = Len(waypoints)]))
        /\ (mq # <<>> /\ Head(mq).kind = "sessionEnded" /\ mq' = Tail(mq))
              => /\ emitted' = <<SessionEnded(Head(mq).arg)>>
                 /\ status' = "monitoring"
                 /\ gps'.currentMode = "monitoring"
        /\ HasEvent(emitted', "SESSION_ENDED")
              => /\ mq # <<>> /\ Head(mq).kind = "sessionEnded" /\ mq' = Tail(mq)
                 /\ Len(emitted') = 1
      ]_vars

\* the continuation of a disconnect has just run
C3_Witness ==
    /\ emitted # <<>>
    /\ emitted[1].type = "SESSION_ENDED"
    /\ emitted[1].session.endTrigger.type = "bluetooth"
    /\ emitted[1].session.endTrigger.deviceId = "d2"
    /\ status = "monitoring"
    /\ gps.currentMode = "monitoring"

\* C4: the handling of a sample or Bluetooth event begins only when the handling of
\* the events before it is complete (no continuation of theirs is waiting), and a
\* session has no waypoint before its SESSION_STARTED is emitted.
C4_HandledOneAtATime ==
    [][ /\ ( /\ emitted' # <<>>
             /\ emitted'[1].type \in {"LOCATION_UPDATE", "BLUETOOTH_CONNECTED",
                                      "BLUETOOTH_DISCONNECTED"} )
            => ~PendingHandler
        /\ Len(waypoints') > Len(waypoints)
            => \A i \in DOMAIN mq : mq[i].kind = "sessionStarted" => mq[i].arg # currentSession
      ]_vars

\* C5: when a stop() that ended a session completes, status is idle and no session
\* is open, whatever was delivered while it waited for the feeds.
C5_StopLeavesNothingOpen ==
    (stopCall.pc = "done" /\ stopCall.ended # Null) =>
        (status = "idle" /\ currentSession = Null)

\* C6: a stop() in which a sub-step failed has still reset the detector and set
\* status to idle, and has emitted ERROR.
C6_StopTearsDownOnFailure ==
    stopCall.pc = "failed" =>
        /\ HasEvent(stopCall.emitted, "ERROR")
        /\ status = "idle"
        /\ detector = DetectorInit

\* C7: a sample for which the detector reports driving while the session is paused
\* makes that same session active again, and a sample for which it reports driving
\* while status is driving and the session is open is appended as a waypoint.
C7_ResumeKeepsSamples ==
    [][ /\ ( /\ SampleStep
             /\ detector'.state = "driving"
             /\ currentSession # Null
             /\ sessions[currentSession].status = "paused" )
            => /\ currentSession' = currentSession
               /\ sessions'[currentSession].status = "active"
        /\ ( /\ SampleStep
             /\ detector'.state = "driving"
             /\ status = "driving"
             /\ currentSession # Null )
            => Len(waypoints') = Len(waypoints) + 1
      ]_vars

\* C8: between event handlings, status driving goes with an active session, status
\* paused with a paused session, and idle, monitoring and detecting with no session.
C8_StatusMatchesSession ==
    Quiescent =>
        /\ status = "driving" =>
               (currentSession # Null /\ sessions[currentSession].status = "active")
        /\ status = "paused" =>
               (currentSession # Null /\ sessions[currentSession].status = "paused")
        /\ status \in {"idle", "monitoring", "detecting"} => currentSession = Null

\* C9: while a session is open, a startSession call fails and changes neither the
\* current session nor the waypoints.
C9_SecondStartFails ==
    [][ (result'.op = "startSession" /\ currentSession # Null)
            => /\ ~result'.ok
               /\ UNCHANGED <<currentSession, sessions, waypoints>>
      ]_vars

\* a startSession call has failed on a session that holds waypoints
C9_Witness ==
    /\ result.op = "startSession"
    /\ ~result.ok
    /\ currentSession # Null
    /\ waypoints # <<>>

\* C10: the waypointCount of the session endSession returns is the number of
\* addWaypoint calls made while that session was active.
C10_CountsActiveCalls ==
    (result.op = "endSession" /\ result.ok) => result.value.waypointCount = activeCalls

\* a session that took waypoints has been ended
C10_Witness ==
    /\ result.op = "endSession"
    /\ result.ok
    /\ result.value.waypointCount = MaxCalls

C12_DrivingAtMinDuration ==
    ( /\ fed.allMoving
      /\ fed.first # Null
      /\ fed.sample.timestamp - fed.first >= minDuration * 1000 )
    => fed.returned = "driving"

\* C13: a sample with speed >= minSpeed handled in state stationary takes the
\* driving-start marker fresh from that sample and leaves the state detecting.
C13_StationaryRedetects ==
    [][ ( /\ detector.state = "stationary"
          /\ fed'.returned # "none"
          /\ fed'.sample.speed >= minSpeed )
        => /\ detector'.state = "detecting"
           /\ detector'.drivingStartTime = fed'.sample.timestamp
      ]_vars

\* a device the scan takes for a car is linked
CarLinked == \E d \in Devices : d.id \in linked /\ d.name \in ScanPatternNames

\* the step detects driving and starts a session
StartsSession ==
    /\ HasEvent(emitted', "DRIVING_DETECTED")
    /\ Len(mq') = Len(mq) + 1
    /\ mq'[Len(mq')].kind = "sessionStarted"

\* C14: the session started on driving detection has a bluetooth startTrigger exactly
\* when a car device is linked at that moment, and otherwise a gps startTrigger
\* carrying the sample that triggered it.
C14_TriggerFollowsLink ==
    [][ StartsSession =>
          LET trigger == sessions'[currentSession'].startTrigger
          IN /\ trigger.type = "bluetooth" <=> CarLinked
             /\ ~CarLinked => trigger = GpsTrigger(emitted'[1].location)
      ]_vars

\* C15: a sample handled with status driving for which the detector reports
\* stationary leaves the session paused, status paused and the feed mode paused, and
\* emits exactly one DRIVING_PAUSED.
C15_StationaryPauses ==
    [][ (SampleStep /\ status = "driving" /\ detector'.state = "stationary")
        => /\ currentSession' # Null
           /\ sessions'[currentSession'].status = "paused"
           /\ status' = "paused"
           /\ gps'.currentMode = "paused"
           /\ CountEvents(emitted', "DRIVING_PAUSED") = 1
      ]_vars

\* C16: a Bluetooth connect event emits BLUETOOTH_CONNECTED and leaves the session,
\* the session objects and the waypoints as they were; in status monitoring or idle
\* it sets status to detecting and the feed mode to driving, and in every other
\* status it leaves status and feed as they were.
C16_ConnectFrame ==
    [][ (emitted' # <<>> /\ emitted'[1].type = "BLUETOOTH_CONNECTED")
        => /\ Len(emitted') = 1
           /\ UNCHANGED <<currentSession, sessions, waypoints, detector, mq>>
           /\ IF status \in {"monitoring", "idle"}
              THEN /\ status' = "detecting"
                   /\ gps' = [gps EXCEPT !.currentMode = "driving"]
              ELSE UNCHANGED <<status, gps>>
      ]_vars

\* a connect has been handled while a session was paused
C16_Witness ==
    /\ emitted # <<>>
    /\ emitted[1].type = "BLUETOOTH_CONNECTED"
    /\ status = "paused"
    /\ currentSession # Null
    /\ gps.currentMode = "paused"

\* the step is a call of start()
StartStep == ~Running(startCall) /\ startCall'.pc \in {"rejected", "noop", "afterBt"}

\* C17: start() fails and changes nothing when the orchestrator is not initialized;
\* when initialized with status other than idle it starts no feed and leaves status as
\* it was; when initialized with status idle it asks the feeds to start, and when
\* both have started status becomes monitoring.
C17_StartContract ==
    [][ /\ (StartStep /\ ~isInitialized)
            => /\ startCall'.pc = "rejected"
               /\ emitted' = <<>>
               /\ UNCHANGED <<status, isInitialized, currentSession, waypoints, sessions,
                              detector, bluetooth, gps, mq>>
        /\ (StartStep /\ isInitialized /\ status # "idle")
            => /\ startCall'.pc = "noop"
               /\ UNCHANGED <<status, bluetooth, gps, mq>>
        /\ (StartStep /\ isInitialized /\ status = "idle")
            => /\ startCall'.pc = "afterBt"
               /\ bluetooth'.isScanning
        /\ (startCall.pc = "gps" /\ startCall'.pc = "done")
            => /\ status' = "monitoring"
               /\ gps'.isTracking
      ]_vars

\* both feeds have started
C17_Witness ==
    /\ startCall.pc = "done"
    /\ status = "monitoring"
    /\ bluetooth.scanRegistered
    /\ gps.isTracking

\* C18: when a feed fails to start, start() sets status to error and emits exactly one
\* ERROR event, which carries the failure; the failing step creates no session.
C18_StartFailure ==
    [][ (Running(startCall) /\ startCall'.pc = "failed")
        => /\ status' = "error"
           /\ Len(emitted') = 1
           /\ emitted'[1] = ErrorEvent(IF startCall.pc = "afterBt"
                                       THEN "startDeviceScan" ELSE "startLocationUpdates")
           /\ startCall'.emitted = emitted'
           /\ UNCHANGED <<currentSession, sessions, waypoints>>
      ]_vars

\* the Bluetooth feed has failed to start
C18_Witness ==
    /\ startCall.pc = "failed"
    /\ startCall.emitted = <<ErrorEvent("startDeviceScan")>>
    /\ status = "error"

\* C19: initialize() on an initialized orchestrator sets nothing up and leaves every
\* field as it was; an initialize() that fails leaves the orchestrator uninitialized,
\* so that start() still fails, and emits ERROR.
C19_InitializeOnce ==
    [][ /\ warned' = "DriveSentry already initialized"
            => /\ isInitialized
               /\ emitted' = <<>>
               /\ UNCHANGED <<status, isInitialized, currentSession, waypoints, sessions,
                              detector, bluetooth, gps, mq, batch>>
        /\ (emitted' # <<>> /\ emitted'[1] = ErrorEvent("BleManager"))
            => /\ ~isInitialized'
               /\ UNCHANGED <<status, bluetooth, gps>>
        /\ (StartStep /\ ~isInitialized) => startCall'.pc = "rejected"
        /\ isInitialized => isInitialized'
      ]_vars

\* initialize() has been called again while the engine was monitoring
C19_Witness ==
    /\ warned = "DriveSentry already initialized"
    /\ status = "monitoring"
    /\ bluetooth.scanRegistered

\* every event of the step went once to every subscribed handler, in order
DeliveredToAll ==
    /\ Len(invoked) = Len(emitted) * Len(eventHandlers)
    /\ \A i \in DOMAIN emitted : \A j \in DOMAIN eventHandlers :
           invoked[(i - 1) * Len(eventHandlers) + j] =
               [handler |-> eventHandlers[j].id, event |-> emitted[i]]

\* C20: every emitted event is handed exactly once to every subscribed handler whether
\* or not other handlers throw, and the step that emits ends in the state it ends in
\* with nobody subscribed: no throw of a handler leaves emit or touches status,
\* session or feed.
C20_HandlersIsolated ==
    [][ /\ DeliveredToAll'
        /\ \A device \in Devices :
              (emitted' # <<>> /\ emitted'[1] = BluetoothConnected(device))
              => LET w == handleCarConnected([World EXCEPT !.eventHandlers = <<>>], device)
                 IN /\ status' = w.status /\ gps' = w.gps
                    /\ currentSession' = w.currentSession /\ sessions' = Collect(w)
        /\ SampleStep
              => LET w == handleLocationUpdate([World EXCEPT !.eventHandlers = <<>>],
                                               emitted'[1].location)
                 IN /\ status' = w.status /\ gps' = w.gps /\ detector' = w.detector
                    /\ currentSession' = w.currentSession /\ sessions' = Collect(w)
                    /\ waypoints' = w.waypoints /\ mq' = w.mq /\ emitted' = w.emitted
      ]_vars

\* driving was detected with a throwing handler subscribed before another one: both
\* events of the step reached the handler after it
C20_Witness ==
    /\ Len(eventHandlers) = 3
    /\ eventHandlers[2].throws
    /\ Len(emitted) = 2
    /\ emitted[2].type = "DRIVING_DETECTED"
    /\ Len(invoked) = 6
    /\ invoked[6] = [handler |-> eventHandlers[3].id, event |-> emitted[2]]
    /\ status = "driving"
    /\ currentSession # Null

\* the sample being handled makes handleDrivingDetected call startSession while a
\* session that is not completed is there
StartRejected ==
    /\ SampleStep
    /\ detector'.state = "driving"
    /\ status # "driving"
    /\ isSessionActive(World)

\* the sample being handled makes handleDrivingPaused call pauseSession while no
\* active session is there
PauseRejected ==
    /\ SampleStep
    /\ detector'.state = "stationary"
    /\ status = "driving"
    /\ getCurrentSession(World).status # "active"

\* C21: a sample whose handling calls startSession while a session is open, or
\* pauseSession while no session is active, has an ERROR event among the events it
\* emits.
C21_FailureSurfaced ==
    [][ (StartRejected \/ PauseRejected) => HasEvent(emitted', "ERROR") ]_vars

\* C22: every turn of the processLocationUpdates loop leaves the rest of the batch to
\* be handled: after the first sample of a batch of n, n - 1 samples are still to
\* come, and after each later one, one fewer than before.
C22_BatchRunsOn ==
    [][ /\ \A location \in Locations, n \in 1..MaxBatch :
               ProcessLocationUpdates(location, n) => batch' = n - 1
        /\ \A location \in Locations :
               ProcessNext(location) => batch' = batch - 1
      ]_vars

\* C23: pauseSession succeeds exactly on an active session, which it leaves paused, and
\* resumeSession exactly on a paused session, which it leaves active; neither changes
\* anything else of the session, and a failed call changes nothing at all.
C23_PauseResumeGuarded ==
    [][ /\ result'.op = "pauseSession"
            => IF getCurrentSession(World).status = "active"
               THEN /\ result'.ok
                    /\ sessions' = [sessions EXCEPT ![currentSession].status = "paused"]
                    /\ UNCHANGED <<currentSession, waypoints>>
               ELSE /\ ~result'.ok
                    /\ UNCHANGED <<currentSession, sessions, waypoints>>
        /\ result'.op = "resumeSession"
            => IF getCurrentSession(World).status = "paused"
               THEN /\ result'.ok
                    /\ sessions' = [sessions EXCEPT ![currentSession].status = "active"]
                    /\ UNCHANGED <<currentSession, waypoints>>
               ELSE /\ ~result'.ok
                    /\ UNCHANGED <<currentSession, sessions, waypoints>>
      ]_vars

\* a pauseSession call has failed on a paused session that holds waypoints
C23_Witness ==
    /\ result.op = "pauseSession"
    /\ ~result.ok
    /\ currentSession # Null
    /\ sessions[currentSession].status = "paused"
    /\ waypoints # <<>>

\* C24: an addWaypoint call made while there is no session, or while the session is
\* paused, raises no error and changes neither the waypoints nor any field of the
\* session.
C24_AddWaypointNoOp ==
    [][ (result'.op = "addWaypoint" /\ getCurrentSession(World).status \in {"none", "paused"})
            => /\ result'.ok
               /\ UNCHANGED <<currentSession, sessions, waypoints>>
      ]_vars

\* addWaypoint has been called on a paused session that holds one slow waypoint
C24_Witness ==
    /\ result.op = "addWaypoint"
    /\ currentSession # Null
    /\ sessions[currentSession].status = "paused"
    /\ Len(waypoints) = 1
    /\ sessions[currentSession].maxSpeed = 0

\* C26: endSession on an open session does not fail.  With fewer than two waypoints
\* the session it returns has totalDistance, totalDuration and averageSpeed 0,
\* whatever time has passed since the start; with two or more its totalDuration is
\* endTime - startTime in seconds, and its averageSpeed is 0 when that duration is 0.
C26_StatsOfShortSessions ==
    [][ (result'.op = "endSession" /\ currentSession # Null)
            => /\ result'.ok
               /\ LET session == result'.value
                  IN IF Len(waypoints) < 2
                     THEN /\ session.totalDistance = 0
                          /\ session.totalDuration = 0
                          /\ session.averageSpeed = Zero
                     ELSE /\ session.totalDuration * 1000 = session.endTime - session.startTime
                          /\ session.totalDuration = 0 => session.averageSpeed = Zero
      ]_vars

\* a session that took one waypoint has been ended after time had passed
C26_Witness ==
    /\ result.op = "endSession"
    /\ result.ok
    /\ result.value.waypointCount = 1
    /\ result.value.endTime > result.value.startTime
    /\ result.value.totalDuration = 0

\* C25: endSession fails when there is no session and changes nothing; on an active or
\* paused session it returns that session, completed and with the trigger given, and
\* leaves no current session and no waypoints.  The startSession that follows
\* succeeds, and its session starts with no waypoints and with every statistic 0.
C25_EndThenStartAfresh ==
    [][ /\ \A trigger \in Triggers :
               SMEndSession(trigger)
                   => IF currentSession = Null
                      THEN /\ ~result'.ok
                           /\ UNCHANGED <<currentSession, sessions, waypoints>>
                      ELSE /\ result'.ok
                           /\ result'.value.id = sessions[currentSession].id
                           /\ result'.value.status = "completed"
                           /\ result'.value.endTrigger = trigger
                           /\ currentSession' = Null
                           /\ waypoints' = <<>>
        /\ (result'.op = "startSession" /\ result.op = "endSession" /\ result.ok)
               => /\ result'.ok
                  /\ currentSession' # Null
                  /\ sessions'[currentSession'] = result'.value
                  /\ waypoints' = <<>>
                  /\ result'.value.id # result.value.id
                  /\ result'.value.status = "active"
                  /\ result'.value.waypointCount = 0
                  /\ result'.value.maxSpeed = 0
                  /\ result'.value.totalDistance = 0
                  /\ result'.value.totalDuration = 0
                  /\ result'.value.averageSpeed = Zero
      ]_vars

\* a session that took two waypoints at different places has been ended
C25_Witness ==
    /\ result.op = "endSession"
    /\ result.ok
    /\ result.value.status = "completed"
    /\ result.value.waypointCount = 2
    /\ result.value.totalDistance > 0
    /\ result.value.maxSpeed > 0
    /\ currentSession = Null
    /\ waypoints = <<>>

\* the entries of the matcher's Map for one device id
Records(entries, id) == {i \in DOMAIN entries : entries[i].key = id}

\* C27: isCarDevice(d) is true while d's id is tagged, whatever d's name, and equals
\* matchesCarPattern(d.name) while it is not; untagCarDevice returns true exactly when
\* the id was tagged, so the second of two untags in a row returns false; and the
\* matcher holds exactly one record for a tagged id and none for any other.
C27_TagsOverridePatterns ==
    [][ /\ answer'.op = "isCarDevice"
            => answer'.value = IF answer'.arg.id \in tagged THEN TRUE
                               ELSE matchesCarPattern(answer'.arg.name)
        /\ answer'.op = "untagCarDevice"
            => /\ answer'.value = (answer'.arg \in tagged)
               /\ (answer.op = "untagCarDevice" /\ answer.arg = answer'.arg)
                      => answer'.value = FALSE
        /\ \A id \in MatcherIds :
               Cardinality(Records(manuallyTaggedDevices', id)) =
                   IF id \in tagged' THEN 1 ELSE 0
      ]_vars

\* a device whose name matches no pattern has been asked for while its id was tagged
\* under another name
C27_Witness ==
    /\ answer.op = "isCarDevice"
    /\ answer.value = TRUE
    /\ ~matchesCarPattern(answer.arg.name)
    /\ answer.arg.id \in tagged
    /\ \E i \in DOMAIN manuallyTaggedDevices :
           /\ manuallyTaggedDevices[i].key = answer.arg.id
           /\ manuallyTaggedDevices[i].value.name # answer.arg.name

\* C28: the confidence processLocation returns is at least 0 and at most 1, and is 0
\* when the state it returns is idle or stationary.
C28_ConfidenceInRange ==
    fed.returned # "none"
        => /\ 0 <= fed.confidence.num
           /\ fed.confidence.num <= fed.confidence.den
           /\ fed.returned \in {"idle", "stationary"} => fed.confidence.num = 0

\* C29: a session value a caller holds is a snapshot.  No pauseSession, resumeSession,
\* addWaypoint, endSession or startSession call changes what the caller reads from it,
\* and what the caller writes to it does not change the manager's current session.
C29_HandedOutAreSnapshots ==
    [][ /\ ( /\ Holding
             /\ ~held'.fresh
             /\ result'.op \in {"pauseSession", "resumeSession", "addWaypoint",
                                "endSession", "startSession"} )
            => HeldValue' = HeldValue
        /\ result'.op = "receiverWrites"
            => /\ currentSession' = currentSession
               /\ currentSession # Null => sessions'[currentSession] = sessions[currentSession]
      ]_vars

\* C30: the waypoints of a session are the samples addWaypoint accepted, in the order
\* of the calls: an accepted sample becomes the last waypoint and leaves those before
\* it as they were, whatever its timestamp; pauseSession and resumeSession leave the
\* sequence alone; and the i-th waypoint has id i and the id of the current session.
C30_WaypointsInArrivalOrder ==
    [][ /\ \A location \in SMLocations :
               (SMAddWaypoint(location) /\ getCurrentSession(World).status = "active")
                   => /\ Len(waypoints') = Len(waypoints) + 1
                      /\ SubSeq(waypoints', 1, Len(waypoints)) = waypoints
                      /\ waypoints'[Len(waypoints')].timestamp = location.timestamp
                      /\ waypoints'[Len(waypoints')].speed = location.speed
                      /\ waypoints'[Len(waypoints')].latitude = location.latitude
        /\ result'.op \in {"pauseSession", "resumeSession"} => UNCHANGED waypoints
        /\ \A i \in DOMAIN waypoints' :
               /\ waypoints'[i].id = i
               /\ currentSession' # Null
               /\ waypoints'[i].sessionId = sessions'[currentSession'].id
      ]_vars

\* a session holds two waypoints of which the first has the later timestamp
C30_Witness ==
    /\ Len(waypoints) = 2
    /\ waypoints[1].timestamp > waypoints[2].timestamp
    /\ waypoints[1].id = 1
    /\ waypoints[2].id = 2

\* no sample since the detector was constructed or reset had speed >= minSpeed
AllSlow == fed.returned # "none" /\ fed.firstMoving = Null

C32_SustainedMotion ==
    [][ (fed'.returned = "driving" /\ detector.state # "driving")
        => \/ fed'.lastSlow = Null
           \/ fed'.sample.timestamp - fed'.lastSlow >= minDuration * 1000
      ]_vars

\* C33: the state becomes stationary on a sample with a speed below minSpeed, or
\* none, that comes maxStationaryTime seconds or more after the first sample of the
\* unbroken run of such samples it belongs to, and on no sample before that one,
\* whatever the timestamp the run starts at; a sample with speed >= minSpeed clears
\* the stationary marker.
C33_StationaryAtThreshold ==
    [][ fed'.returned # "none"
        => /\ ( /\ fed'.runStart # Null
                /\ fed'.sample.timestamp - fed'.runStart >= maxStationaryTime * 1000 )
               => fed'.returned = "stationary"
           /\ (detector.state # "stationary" /\ fed'.returned = "stationary")
               => /\ fed'.runStart # Null
                  /\ fed'.sample.timestamp - fed'.runStart >= maxStationaryTime * 1000
           /\ fed'.runStart = Null => detector'.stationaryStartTime = Null
      ]_vars

\* C34: after reset() the detector is in the state of a detector just constructed,
\* and for every sample fed to it since then it returned the state, the durations and
\* the confidence that a detector constructed at the reset returns for the same
\* samples.
C34_ResetIsFresh ==
    fed.afterReset
        => /\ detector = fed.twin
           /\ fed.returned = "none" => detector = DetectorInit
           /\ fed.returned # "none"
                  => /\ fed.returned = fed.twin.state
                     /\ getResult(detector, fed.sample) = getResult(fed.twin, fed.sample)

\* a detector reset after it had been fed is detecting again, its marker taken from
\* the stream after the reset
C34_Witness ==
    /\ fed.afterReset
    /\ fed.returned = "detecting"
    /\ detector.drivingStartTime = fed.firstMoving
    /\ fed.firstMoving > 0

\* C35: a sample for which the detector reports driving, handled while status is not
\* driving, sets status to driving, emits one DRIVING_DETECTED and calls
\* startSession, whether or not the engine was initialized or started: with no session
\* open a new active session is made and its SESSION_STARTED is on its way, and with
\* one open the call is rejected and the session stays.
C35_DetectionNotGated ==
    [][ (SampleStep /\ detector'.state = "driving" /\ status # "driving")
        => /\ status' = "driving"
           /\ CountEvents(emitted', "DRIVING_DETECTED") = 1
           /\ IF isSessionActive(World)
              THEN UNCHANGED <<currentSession, waypoints, mq>>
              ELSE /\ currentSession' # Null
                   /\ sessions'[currentSession'].status = "active"
                   /\ mq' = Append(mq, Frame("sessionStarted", currentSession'))
      ]_vars

\* driving was detected and a session started on an engine never initialized
C35_Witness ==
    /\ ~isInitialized
    /\ status = "driving"
    /\ HasEvent(emitted, "DRIVING_DETECTED")
    /\ currentSession # Null
    /\ gps.isTracking = FALSE

\* the session of the manager is there and active
SessionIsActive == getCurrentSession(World).status = "active"

\* C36: the step that starts a session leaves it without waypoints; a session's first
\* waypoint is made from the sample of a step taken with status driving and the
\* session active for which the detector reports driving, and every such step taken
\* on a session without waypoints makes that sample its waypoint number 1.
C36_StartSampleNotRecorded ==
    [][ /\ StartsSession => waypoints' = <<>>
        /\ (waypoints = <<>> /\ waypoints' # <<>>)
               => /\ SampleStep
                  /\ status = "driving"
                  /\ SessionIsActive
                  /\ detector'.state = "driving"
                  /\ currentSession' = currentSession
        /\ ( /\ SampleStep
             /\ status = "driving"
             /\ SessionIsActive
             /\ detector'.state = "driving"
             /\ waypoints = <<>> )
               => /\ Len(waypoints') = 1
                  /\ waypoints'[1].id = 1
                  /\ waypoints'[1].timestamp = emitted'[1].location.timestamp
                  /\ waypoints'[1].sessionId = sessions[currentSession].id
      ]_vars

\* a session started on one sample holds as its only waypoint a later sample
C36_Witness ==
    /\ currentSession # Null
    /\ sessions[currentSession].startTrigger.type = "gps"
    /\ Len(waypoints) = 1
    /\ waypoints[1].timestamp > sessions[currentSession].startTrigger.location.timestamp

\* C37: neither the handling of a Bluetooth disconnect nor the continuation that emits
\* SESSION_ENDED and sets status monitoring touches the detector.  So a sample with
\* speed >= minSpeed handled with status monitoring, minDuration or more after the
\* marker the detector still holds, is reported as driving and starts a session in
\* that same step.
C37_DetectorSurvivesDisconnect ==
    [][ /\ ( /\ emitted' # <<>>
             /\ emitted'[1].type \in {"BLUETOOTH_DISCONNECTED", "SESSION_ENDED"} )
            => UNCHANGED detector
        /\ ( /\ SampleStep
             /\ status = "monitoring"
             /\ ~isSessionActive(World)
             /\ emitted'[1].location.speed >= minSpeed
             /\ ~Falsy(detector.drivingStartTime)
             /\ emitted'[1].location.timestamp - detector.drivingStartTime
                    >= minDuration * 1000 )
            => /\ detector'.state = "driving"
               /\ detector'.drivingStartTime = detector.drivingStartTime
               /\ status' = "driving"
               /\ StartsSession
      ]_vars

\* a disconnect has ended the session and status is monitoring again, the detector
\* still in state driving with its marker
C37_Witness ==
    /\ status = "monitoring"
    /\ currentSession = Null
    /\ Len(emitted) = 1
    /\ emitted[1].type = "SESSION_ENDED"
    /\ emitted[1].session.endTrigger.type = "bluetooth"
    /\ detector.state = "driving"
    /\ ~Falsy(detector.drivingStartTime)

\* a Bluetooth disconnect event has been handled in the step
DisconnectStep == emitted' # <<>> /\ emitted'[1].type = "BLUETOOTH_DISCONNECTED"

\* C38: a step that emits DRIVING_DETECTED emits it once and leaves status driving, and
\* the next sample of the same batch for which the detector reports driving emits
\* none and starts no session.  Of two disconnect events handled one right after the
\* other, the second ends no session and queues no SESSION_ENDED.
C38_OnceUnderBursts ==
    [][ /\ HasEvent(emitted', "DRIVING_DETECTED")
            => /\ CountEvents(emitted', "DRIVING_DETECTED") = 1
               /\ status' = "driving"
        /\ ( /\ SampleStep
             /\ batch > 0
             /\ HasEvent(emitted, "DRIVING_DETECTED")
             /\ detector'.state = "driving" )
            => /\ ~HasEvent(emitted', "DRIVING_DETECTED")
               /\ UNCHANGED <<currentSession, mq, status>>
        /\ ( /\ DisconnectStep
             /\ emitted # <<>>
             /\ emitted[1].type = "BLUETOOTH_DISCONNECTED" )
            => UNCHANGED <<currentSession, sessions, waypoints, mq, status>>
      ]_vars

\* the second sample of a batch has become a waypoint of the session the first one
\* started, whose SESSION_STARTED is still to be emitted
C38_Witness ==
    /\ status = "driving"
    /\ currentSession # Null
    /\ Len(mq) = 1
    /\ mq[1].kind = "sessionStarted"
    /\ mq[1].arg = currentSession
    /\ Len(waypoints) = 1
    /\ ~HasEvent(emitted, "DRIVING_DETECTED")


\* stop() has run to its end: detector reset and status idle
StopDone == stopCall.pc = "gps" /\ stopCall'.pc = "done"

\* C39: status detecting is left only by a sample for which the detector reports
\* driving, to driving, or by the end of stop(), to idle; every other step taken in
\* status detecting leaves it detecting.
C39_DetectingLeftOnlyByDrivingOrStop ==
    [][ (status = "detecting" /\ status' # "detecting")
            => \/ SampleStep /\ detector'.state = "driving" /\ status' = "driving"
               \/ StopDone /\ status' = "idle"
      ]_vars


\* C40: in status error a call of start() warns and returns: it starts no feed, queues
\* nothing and leaves status error.  Status error is left only by the end of stop(), to
\* idle, or by a sample for which the detector reports driving, to driving.
C40_ErrorIsSticky ==
    [][ /\ (status = "error" /\ StartStep)
            => /\ startCall'.pc = "noop"
               /\ warned' = "DriveSentry already running"
               /\ emitted' = <<>>
               /\ UNCHANGED <<status, bluetooth, gps, mq, detector, currentSession>>
        /\ (status = "error" /\ status' # "error")
            => \/ StopDone /\ status' = "idle"
               \/ SampleStep /\ detector'.state = "driving" /\ status' = "driving"
      ]_vars

====
